---- MODULE Spec2Model ----
(***************************************************************************)
(* A model of src/browser/ColorManager.ts: the color set of a terminal,    *)
(* the theme application (setTheme), the restore snapshot (restoreColor)   *)
(* and the contrast cache invalidation.                                    *)
(*                                                                         *)
(* Representation.  An IColor {css, rgba} is a record [css, rgba]; the     *)
(* packed 0xRRGGBBAA integer is kept as its four bytes <<r, g, b, a>>      *)
(* (the packing is a bijection and the top bit of a packed value does not  *)
(* fit the checker's integers).  A JavaScript array is a sequence whose    *)
(* element i is the array's element i - 1; At and ArraySet take the        *)
(* source's 0-based index.  `undefined' is the value Undefined where a     *)
(* color is expected and the string UNDEF where a theme string is.         *)
(***************************************************************************)
EXTENDS Integers, Sequences, FiniteSets, TLC

(***************************************************************************)
(* Bounds of the model.                                                    *)
(***************************************************************************)
\* longest extendedAnsi list a theme of the model carries
MaxExtLen == 241
\* number of distinct keys the renderer may put into the contrast cache
MaxCacheKeys == 1

(***************************************************************************)
(* Arrays and undefined.                                                   *)
(***************************************************************************)
Undefined == [css |-> "undefined", rgba |-> <<>>]
UNDEF == "<undefined>"

At(a, i) == IF i >= 0 /\ i < Len(a) THEN a[i + 1] ELSE Undefined

\* a[i] = v for i <= a.length (the model never writes past the end + 1)
ArraySet(a, i, v) == IF i < Len(a) THEN [a EXCEPT ![i + 1] = v] ELSE Append(a, v)

Max(x, y) == IF x >= y THEN x ELSE y

(***************************************************************************)
(* common/Color: channels.toRgba, channels.toCss, color.blend,             *)
(* color.opacity, color.isOpaque.                                          *)
(***************************************************************************)
HexDigit == <<"0", "1", "2", "3", "4", "5", "6", "7",
              "8", "9", "a", "b", "c", "d", "e", "f">>

toPaddedHex(c) == HexDigit[(c \div 16) + 1] \o HexDigit[(c % 16) + 1]

\* a = -1 stands for the omitted alpha argument
toCss(r, g, b, a) ==
  IF a = -1
    THEN "#" \o toPaddedHex(r) \o toPaddedHex(g) \o toPaddedHex(b)
    ELSE "#" \o toPaddedHex(r) \o toPaddedHex(g) \o toPaddedHex(b) \o toPaddedHex(a)

toRgba(r, g, b, a) == <<r % 256, g % 256, b % 256, (IF a = -1 THEN 255 ELSE a) % 256>>

\* Math.round(x * (al / 255)) for integers x and al in 0..255: the product
\* is never a half, so rounding to nearest is exact
RoundScaled(x, al) == (2 * x * al + 255) \div 510

isOpaque(c) == c.rgba[4] = 255

blend(bg, fg) ==
  IF fg.rgba[4] = 255
    THEN [css |-> fg.css, rgba |-> fg.rgba]
    ELSE LET r == bg.rgba[1] + RoundScaled(fg.rgba[1] - bg.rgba[1], fg.rgba[4])
             g == bg.rgba[2] + RoundScaled(fg.rgba[2] - bg.rgba[2], fg.rgba[4])
             b == bg.rgba[3] + RoundScaled(fg.rgba[3] - bg.rgba[3], fg.rgba[4])
         IN [css |-> toCss(r, g, b, -1), rgba |-> toRgba(r, g, b, -1)]

\* color.opacity(c, tenths / 10): a = Math.round(opacity * 0xFF)
opacity(c, tenths) ==
  LET a == (tenths * 255 + 5) \div 10
  IN [css |-> toCss(c.rgba[1], c.rgba[2], c.rgba[3], a),
      rgba |-> toRgba(c.rgba[1], c.rgba[2], c.rgba[3], a)]

(***************************************************************************)
(* The built-in defaults.                                                  *)
(***************************************************************************)
OpaqueColor(str, r, g, b) == [css |-> str, rgba |-> <<r, g, b, 255>>]

DEFAULT_FOREGROUND == OpaqueColor("#ffffff", 255, 255, 255)
DEFAULT_BACKGROUND == OpaqueColor("#000000", 0, 0, 0)
DEFAULT_CURSOR == OpaqueColor("#ffffff", 255, 255, 255)
DEFAULT_CURSOR_ACCENT == OpaqueColor("#000000", 0, 0, 0)
DEFAULT_SELECTION == [css |-> "rgba(255, 255, 255, 0.3)", rgba |-> <<255, 255, 255, 77>>]

BaseAnsi ==
  << OpaqueColor("#2e3436", 46, 52, 54),
     OpaqueColor("#cc0000", 204, 0, 0),
     OpaqueColor("#4e9a06", 78, 154, 6),
     OpaqueColor("#c4a000", 196, 160, 0),
     OpaqueColor("#3465a4", 52, 101, 164),
     OpaqueColor("#75507b", 117, 80, 123),
     OpaqueColor("#06989a", 6, 152, 154),
     OpaqueColor("#d3d7cf", 211, 215, 207),
     OpaqueColor("#555753", 85, 87, 83),
     OpaqueColor("#ef2929", 239, 41, 41),
     OpaqueColor("#8ae234", 138, 226, 52),
     OpaqueColor("#fce94f", 252, 233, 79),
     OpaqueColor("#729fcf", 114, 159, 207),
     OpaqueColor("#ad7fa8", 173, 127, 168),
     OpaqueColor("#34e2e2", 52, 226, 226),
     OpaqueColor("#eeeeec", 238, 238, 236) >>

CubeSteps == <<0, 95, 135, 175, 215, 255>>

\* the red and the blue index exchanged
CubeColorSwapped(i) ==
  LET r == CubeSteps[(i % 6) + 1]
      g == CubeSteps[((i \div 6) % 6) + 1]
      b == CubeSteps[((i \div 36) % 6) + 1]
  IN [css |-> toCss(r, g, b, -1), rgba |-> toRgba(r, g, b, -1)]

CubeColor(i) ==
  LET r == CubeSteps[((i \div 36) % 6) + 1]
      g == CubeSteps[((i \div 6) % 6) + 1]
      b == CubeSteps[(i % 6) + 1]
  IN [css |-> toCss(r, g, b, -1), rgba |-> toRgba(r, g, b, -1)]

GreyColor(i) ==
  LET c == 8 + i * 10
  IN [css |-> toCss(c, c, c, -1), rgba |-> toRgba(c, c, c, -1)]

DEFAULT_ANSI_COLORS ==
  BaseAnsi \o [i \in 1..216 |-> CubeColor(i - 1)] \o [i \in 1..24 |-> GreyColor(i - 1)]

(***************************************************************************)
(* The host's canvas, used by _parseColor as a validation oracle: what     *)
(* ctx.fillStyle reads back after the assignment of a string, and the      *)
(* pixel getImageData returns after fillRect.  GRADIENT is the litmus      *)
(* gradient that stays in place when the string is rejected.               *)
(***************************************************************************)
GRADIENT == "[object CanvasGradient]"

FillStyle(str) ==
  CASE str = "#336699" -> "#336699"
    [] str = "#FFFFFF" -> "#ffffff"
    [] str = "#12345610" -> "rgba(18, 52, 86, 0.063)"
    [] str = "rgba(255, 0, 0, 0.5)" -> "rgba(255, 0, 0, 0.5)"
    [] OTHER -> GRADIENT

\* premultiplied and back: #12345610 reads back as #10305010
ImageData(str) ==
  CASE str = "#336699" -> <<51, 102, 153, 255>>
    [] str = "#FFFFFF" -> <<255, 255, 255, 255>>
    [] str = "#12345610" -> <<16, 48, 80, 16>>
    [] str = "rgba(255, 0, 0, 0.5)" -> <<255, 0, 0, 128>>
    [] OTHER -> <<0, 0, 0, 0>>

\* fillStyle.substring(5, length - 1).split(',').map(Number) of a serialized
\* "rgba(r, g, b, a)"; the fractional alpha is kept in thousandths
FillStyleComponents(style) ==
  CASE style = "rgba(18, 52, 86, 0.063)" -> <<18, 52, 86, 63>>
    [] style = "rgba(255, 0, 0, 0.5)" -> <<255, 0, 0, 500>>
    [] OTHER -> <<0, 0, 0, 0>>

\* Math.round(a * 255) for a = thousandths / 1000
RoundAlpha(thousandths) == (thousandths * 255 + 500) \div 1000

(***************************************************************************)
(* ColorManager._parseColor.  The two console.warn calls read              *)
(* fallback.css, which raises a TypeError when the fallback is undefined;  *)
(* parseColorThrows tells when, parseColor is the value returned           *)
(* otherwise.                                                              *)
(***************************************************************************)
parseColorThrows(str, fallback, allowTransparency) ==
  /\ str # UNDEF
  /\ fallback = Undefined
  /\ \/ FillStyle(str) = GRADIENT
     \/ ImageData(str)[4] # 255 /\ ~allowTransparency

parseColor(str, fallback, allowTransparency) ==
  IF str = UNDEF THEN fallback
  ELSE IF FillStyle(str) = GRADIENT THEN fallback
  ELSE IF ImageData(str)[4] # 255
    THEN IF ~allowTransparency
           THEN fallback
           ELSE LET comp == FillStyleComponents(FillStyle(str))
                IN [css |-> str,
                    rgba |-> toRgba(comp[1], comp[2], comp[3], RoundAlpha(comp[4]))]
    ELSE LET data == ImageData(str)
         IN [css |-> FillStyle(str),
             rgba |-> toRgba(data[1], data[2], data[3], data[4])]

(***************************************************************************)
(* Themes.  A theme is a record of the ITheme fields; a missing field is   *)
(* UNDEF, a missing extendedAnsi is NoExt.                                 *)
(***************************************************************************)
AnsiNames == <<"black", "red", "green", "yellow", "blue", "magenta", "cyan", "white",
               "brightBlack", "brightRed", "brightGreen", "brightYellow",
               "brightBlue", "brightMagenta", "brightCyan", "brightWhite">>

StructNames == {"foreground", "background", "cursor", "cursorAccent",
                "selection", "selectionForeground"}

ThemeNames == StructNames \cup {AnsiNames[k] : k \in 1..16}

NoExt == <<"<no extendedAnsi>">>

EmptyThemeStrings == [n \in ThemeNames |-> UNDEF]

EmptyTheme == [str |-> EmptyThemeStrings, extendedAnsi |-> NoExt]

\* JavaScript truthiness of a theme string
Truthy(str) == str # UNDEF /\ str # ""

(***************************************************************************)
(* ColorManager._updateRestoreColors                                       *)
(***************************************************************************)
\* a snapshot whose cursor is copied from the wrong field
updateRestoreColorsWrongField(c) ==
  [foreground |-> c.foreground,
   background |-> c.background,
   cursor |-> c.foreground,
   ansi |-> c.ansi]

\* a snapshot of the default palette instead of the live array
updateRestoreColorsDefaultAnsi(c) ==
  [foreground |-> c.foreground,
   background |-> c.background,
   cursor |-> c.cursor,
   ansi |-> DEFAULT_ANSI_COLORS]

updateRestoreColors(c) ==
  [foreground |-> c.foreground,
   background |-> c.background,
   cursor |-> c.cursor,
   ansi |-> c.ansi]

(***************************************************************************)
(* ColorManager.setTheme, in the order of its statements.                  *)
(***************************************************************************)
nullColor == [css |-> "", rgba |-> <<0, 0, 0, 0>>]

\* the cursor parsed under the instance flag instead of `true'
SetStructuralCursorByFlag(c, theme, allowTransparency) ==
  [c EXCEPT
     !.foreground = parseColor(theme.str["foreground"], DEFAULT_FOREGROUND, allowTransparency),
     !.background = parseColor(theme.str["background"], DEFAULT_BACKGROUND, allowTransparency),
     !.cursor = parseColor(theme.str["cursor"], DEFAULT_CURSOR, allowTransparency),
     !.cursorAccent = parseColor(theme.str["cursorAccent"], DEFAULT_CURSOR_ACCENT, TRUE),
     !.selectionTransparent = parseColor(theme.str["selection"], DEFAULT_SELECTION, TRUE)]

\* lines 131-135
SetStructural(c, theme, allowTransparency) ==
  [c EXCEPT
     !.foreground = parseColor(theme.str["foreground"], DEFAULT_FOREGROUND, allowTransparency),
     !.background = parseColor(theme.str["background"], DEFAULT_BACKGROUND, allowTransparency),
     !.cursor = parseColor(theme.str["cursor"], DEFAULT_CURSOR, TRUE),
     !.cursorAccent = parseColor(theme.str["cursorAccent"], DEFAULT_CURSOR_ACCENT, TRUE),
     !.selectionTransparent = parseColor(theme.str["selection"], DEFAULT_SELECTION, TRUE)]

\* the selection blended onto the default background instead of the new one
SetSelectionOpaqueOnDefault(c) ==
  [c EXCEPT !.selectionOpaque = blend(DEFAULT_BACKGROUND, c.selectionTransparent)]

\* line 136
SetSelectionOpaque(c) ==
  [c EXCEPT !.selectionOpaque = blend(c.background, c.selectionTransparent)]

\* the field left alone when the theme supplies no value
SetSelectionForegroundKept(c, theme, allowTransparency) ==
  IF Truthy(theme.str["selectionForeground"])
    THEN LET parsed == parseColor(theme.str["selectionForeground"], nullColor,
                                  allowTransparency)
         IN [c EXCEPT !.selectionForeground = IF parsed = nullColor THEN Undefined ELSE parsed]
    ELSE c

\* lines 137-144
SetSelectionForeground(c, theme, allowTransparency) ==
  LET parsed == IF Truthy(theme.str["selectionForeground"])
                  THEN parseColor(theme.str["selectionForeground"], nullColor, allowTransparency)
                  ELSE Undefined
  IN [c EXCEPT !.selectionForeground = IF parsed = nullColor THEN Undefined ELSE parsed]

\* lines 150-153
SelectionOpacity == 3

\* an opaque selection left as it is
AdjustSelectionSkipped(c) == c

AdjustSelection(c) ==
  IF isOpaque(c.selectionTransparent)
    THEN [c EXCEPT !.selectionTransparent = opacity(c.selectionTransparent, SelectionOpacity)]
    ELSE c

\* the slots above 15 put back to the palette by every setTheme
SetBaseAnsiResetAll(c, theme, allowTransparency) ==
  [c EXCEPT !.ansi =
     [i \in 1..Len(c.ansi) |->
        IF i <= 16
          THEN parseColor(theme.str[AnsiNames[i]], At(DEFAULT_ANSI_COLORS, i - 1), allowTransparency)
          ELSE IF i <= 256 THEN At(DEFAULT_ANSI_COLORS, i - 1) ELSE c.ansi[i]]]

\* lines 154-169
SetBaseAnsi(c, theme, allowTransparency) ==
  [c EXCEPT !.ansi =
     [i \in 1..Len(c.ansi) |->
        IF i <= 16
          THEN parseColor(theme.str[AnsiNames[i]], At(DEFAULT_ANSI_COLORS, i - 1), allowTransparency)
          ELSE c.ansi[i]]]

\* line 171
ColorCount(ext) == Max(Len(ext) + 16, 256)

\* the string the loop reads for slot i, and its fallback
ExtString(ext, i) == IF i - 16 < Len(ext) THEN ext[i - 16 + 1] ELSE UNDEF

\* the slots at which _parseColor raises
ThrowingSlots(ext, allowTransparency) ==
  {i \in 16..(ColorCount(ext) - 1) :
     parseColorThrows(ExtString(ext, i), At(DEFAULT_ANSI_COLORS, i), allowTransparency)}

\* the slot where the loop stops: the first slot at which _parseColor raises,
\* or colorCount
LoopStop(ext, allowTransparency) ==
  LET throwing == ThrowingSlots(ext, allowTransparency)
  IN IF throwing = {}
       THEN ColorCount(ext)
       ELSE CHOOSE i \in throwing : \A j \in throwing : i <= j

\* lines 172-174: the loop assigns the slots 16 .. stop - 1 in order
LoopAssign(ansi, ext, allowTransparency, stop) ==
  [k \in 1..Max(Len(ansi), stop) |->
     IF k - 1 >= 16 /\ k - 1 < stop
       THEN parseColor(ExtString(ext, k - 1), At(DEFAULT_ANSI_COLORS, k - 1),
                       allowTransparency)
       ELSE ansi[k]]

ExtendedLoop(ansi, ext, allowTransparency) ==
  LET stop == LoopStop(ext, allowTransparency)
  IN [ansi |-> LoopAssign(ansi, ext, allowTransparency, stop),
      raised |-> stop < ColorCount(ext)]

\* lines 170-175
SetExtendedAnsi(c, theme, allowTransparency) ==
  IF theme.extendedAnsi = NoExt
    THEN [colors |-> c, raised |-> FALSE]
    ELSE LET res == ExtendedLoop(c.ansi, theme.extendedAnsi, allowTransparency)
         IN [colors |-> [c EXCEPT !.ansi = res.ansi], raised |-> res.raised]

\* selectionOpaque blended before the new background and selection are stored
SetThemeColorsStaleBlend(c, theme, allowTransparency) ==
  SetExtendedAnsi(
    SetBaseAnsi(
      AdjustSelection(
        SetSelectionForeground(
          SetStructural(SetSelectionOpaque(c), theme, allowTransparency),
          theme, allowTransparency)),
      theme, allowTransparency),
    theme, allowTransparency)

\* the color set setTheme leaves, and whether it raised before its last two
\* statements
SetThemeColors(c, theme, allowTransparency) ==
  SetExtendedAnsi(
    SetBaseAnsi(
      AdjustSelection(
        SetSelectionForeground(
          SetSelectionOpaque(SetStructural(c, theme, allowTransparency)),
          theme, allowTransparency)),
      theme, allowTransparency),
    theme, allowTransparency)

(***************************************************************************)
(* ColorManager.restoreColor                                               *)
(***************************************************************************)
NoSlot == -1
FOREGROUND == 256
BACKGROUND == 257
CURSOR == 258

\* a loop that restores the sixteen base slots only
RestoreAnsiLoopBaseOnly(ansi, restoreAnsi) ==
  [k \in 1..Max(Len(ansi), Len(restoreAnsi)) |->
     IF k - 1 < 16 THEN At(restoreAnsi, k - 1) ELSE ansi[k]]

\* lines 184-186: every slot below the snapshot's length is assigned
RestoreAnsiLoop(ansi, restoreAnsi) ==
  [k \in 1..Max(Len(ansi), Len(restoreAnsi)) |->
     IF k - 1 < Len(restoreAnsi) THEN At(restoreAnsi, k - 1) ELSE ansi[k]]

\* restoreColor(FOREGROUND) taken for the unset slot as well
restoreColorForegroundAndAnsi(c, r, slot) ==
  IF slot = NoSlot THEN [c EXCEPT !.ansi = RestoreAnsiLoop(c.ansi, r.ansi)]
  ELSE IF slot = FOREGROUND
    THEN [c EXCEPT !.foreground = r.foreground, !.ansi = RestoreAnsiLoop(c.ansi, r.ansi)]
  ELSE IF slot = BACKGROUND THEN [c EXCEPT !.background = r.background]
  ELSE IF slot = CURSOR THEN [c EXCEPT !.cursor = r.cursor]
  ELSE [c EXCEPT !.ansi = ArraySet(c.ansi, slot, At(r.ansi, slot))]

restoreColor(c, r, slot) ==
  IF slot = NoSlot THEN [c EXCEPT !.ansi = RestoreAnsiLoop(c.ansi, r.ansi)]
  ELSE IF slot = FOREGROUND THEN [c EXCEPT !.foreground = r.foreground]
  ELSE IF slot = BACKGROUND THEN [c EXCEPT !.background = r.background]
  ELSE IF slot = CURSOR THEN [c EXCEPT !.cursor = r.cursor]
  ELSE [c EXCEPT !.ansi = ArraySet(c.ansi, slot, At(r.ansi, slot))]

(***************************************************************************)
(* ColorContrastCache.clear, and ColorManager.onOptionsChange              *)
(***************************************************************************)
clear(cache) == {}

\* the 'minimumContrastRatio' case without its clear()
onOptionsChangeCacheKept(cache, key) == cache

\* the 'minimumContrastRatio' case without its break: every key clears
onOptionsChangeCacheAnyKey(cache, key) == clear(cache)

onOptionsChangeCache(cache, key) ==
  IF key = "minimumContrastRatio" THEN clear(cache) ELSE cache

\* the two cases of the switch exchanged
onOptionsChangeFlagWrongCase(flag, key, value) ==
  IF key = "minimumContrastRatio" THEN value ELSE flag

onOptionsChangeFlag(flag, key, value) ==
  IF key = "allowTransparency" THEN value ELSE flag

(***************************************************************************)
(* Inputs of the model.                                                    *)
(***************************************************************************)
CssInputs == {"#FFFFFF", "#12345610", "not-a-color"}

Uniform(s) == [str |-> [n \in ThemeNames |-> s], extendedAnsi |-> NoExt]

ExtLens == {0, 1, MaxExtLen}

ExtTheme(n, s) == [str |-> EmptyThemeStrings, extendedAnsi |-> [k \in 1..n |-> s]]

Mixed ==
  [str |-> [n \in ThemeNames |->
              CASE n = "foreground" -> "#336699"
                [] n = "background" -> "#336699"
                [] n = "cursor" -> "rgba(255, 0, 0, 0.5)"
                [] n = "selection" -> "#FFFFFF"
                [] n = "selectionForeground" -> ""
                [] n = "black" -> "#FFFFFF"
                [] n = "brightWhite" -> "rgba(255, 0, 0, 0.5)"
                [] OTHER -> UNDEF],
   extendedAnsi |-> <<"#336699", "not-a-color", "#12345610">>]

Themes ==
  {EmptyTheme, Mixed}
    \cup {Uniform(s) : s \in CssInputs}
    \cup {ExtTheme(n, s) : n \in ExtLens, s \in CssInputs}

\* the themes of the session specification
SessionThemes == {EmptyTheme, Mixed, ExtTheme(MaxExtLen, "not-a-color")}

OptionKeys == {"minimumContrastRatio", "allowTransparency", "fontSize"}

RestoreSlots == {NoSlot, 16, FOREGROUND, BACKGROUND, CURSOR}

\* what the owner of the manager writes through the public `colors` field
\* (an OSC 4/10/11/12 color change)
WriteSlots == {16, FOREGROUND}

WrittenColor == OpaqueColor("#123456", 18, 52, 86)

CacheKeys == 1..MaxCacheKeys

(***************************************************************************)
(* State.                                                                  *)
(*   colors, restoreColors, allowTransparency, contrastCache: the fields   *)
(*     of the ColorManager (contrastCache: the keys the cache holds);      *)
(*   last: the operation that produced the state, whether it raised and    *)
(*     whether it changed the color set (for onOptionsChange also the      *)
(*     flag value it delivered and whether it emptied the cache);          *)
(*   theme: the argument of the most recent setTheme;                      *)
(*   applied: foreground, background, cursor and ansi as they were when    *)
(*     the constructor or the most recent setTheme completed.              *)
(***************************************************************************)
VARIABLES colors, restoreColors, allowTransparency, contrastCache, last, theme, applied

vars == <<colors, restoreColors, allowTransparency, contrastCache, last, theme, applied>>

\* value: the value an onOptionsChange('allowTransparency', value) delivered;
\* emptied: the operation was an onOptionsChange that found entries in the
\* contrast cache and left none
Op(name, slot, key, raised, changed) ==
  [op |-> name, slot |-> slot, key |-> key, raised |-> raised, changed |-> changed,
   value |-> FALSE, emptied |-> FALSE]

\* lines 100-110
InitialColors ==
  [foreground |-> DEFAULT_FOREGROUND,
   background |-> DEFAULT_BACKGROUND,
   cursor |-> DEFAULT_CURSOR,
   cursorAccent |-> DEFAULT_CURSOR_ACCENT,
   selectionTransparent |-> DEFAULT_SELECTION,
   selectionOpaque |-> blend(DEFAULT_BACKGROUND, DEFAULT_SELECTION),
   selectionForeground |-> Undefined,
   ansi |-> DEFAULT_ANSI_COLORS]

Structural(c) ==
  [foreground |-> c.foreground, background |-> c.background,
   cursor |-> c.cursor, ansi |-> c.ansi]

Init ==
  /\ allowTransparency \in BOOLEAN
  /\ colors = InitialColors
  /\ contrastCache = {}
  /\ restoreColors = updateRestoreColors(InitialColors)
  /\ last = Op("constructor", NoSlot, "", FALSE, FALSE)
  /\ theme = EmptyTheme
  /\ applied = Structural(InitialColors)

SetTheme(t) ==
  LET res == SetThemeColors(colors, t, allowTransparency)
  IN /\ colors' = res.colors
     /\ IF res.raised
          THEN UNCHANGED <<contrastCache, restoreColors, applied>>
          ELSE /\ contrastCache' = clear(contrastCache)
               /\ restoreColors' = updateRestoreColors(res.colors)
               /\ applied' = Structural(res.colors)
     /\ last' = Op("setTheme", NoSlot, "", res.raised, res.colors # colors)
     /\ theme' = t
     /\ UNCHANGED allowTransparency

RestoreColor(slot) ==
  /\ colors' = restoreColor(colors, restoreColors, slot)
  /\ last' = Op("restoreColor", slot, "", FALSE, colors' # colors)
  /\ UNCHANGED <<restoreColors, allowTransparency, contrastCache, theme, applied>>

OnOptionsChange(key, value) ==
  /\ contrastCache' = onOptionsChangeCache(contrastCache, key)
  /\ allowTransparency' = onOptionsChangeFlag(allowTransparency, key, value)
  /\ last' = [Op("onOptionsChange", NoSlot, key, FALSE, FALSE) EXCEPT
                !.value = (key = "allowTransparency" /\ value),
                !.emptied = (contrastCache # {} /\ contrastCache' = {})]
  /\ UNCHANGED <<colors, restoreColors, theme, applied>>

\* colors.foreground = c, colors.ansi[slot] = c, ... by the owner
DirectWrite(slot) ==
  /\ colors' = IF slot = FOREGROUND THEN [colors EXCEPT !.foreground = WrittenColor]
               ELSE IF slot = BACKGROUND THEN [colors EXCEPT !.background = WrittenColor]
               ELSE IF slot = CURSOR THEN [colors EXCEPT !.cursor = WrittenColor]
               ELSE [colors EXCEPT !.ansi = ArraySet(colors.ansi, slot, WrittenColor)]
  /\ last' = Op("write", slot, "", FALSE, colors' # colors)
  /\ UNCHANGED <<restoreColors, allowTransparency, contrastCache, theme, applied>>

\* the renderer stores a contrast result through colors.contrastCache
CacheSet(k) ==
  /\ contrastCache' = contrastCache \cup {k}
  /\ last' = Op("cacheSet", NoSlot, "", FALSE, FALSE)
  /\ UNCHANGED <<colors, restoreColors, allowTransparency, theme, applied>>

\* The terminal session: every operation, with the themes of SessionThemes.
Next ==
  \/ \E t \in SessionThemes : SetTheme(t)
  \/ \E slot \in RestoreSlots : RestoreColor(slot)
  \/ \E key \in OptionKeys, value \in BOOLEAN : OnOptionsChange(key, value)
  \/ \E slot \in WriteSlots : DirectWrite(slot)
  \/ \E k \in CacheKeys : CacheSet(k)

Spec == Init /\ [][Next]_vars

\* Theme application: every theme of Themes, under either value of the
\* allowTransparency option.
NextTheme ==
  \/ \E t \in Themes : SetTheme(t)
  \/ \E key \in OptionKeys, value \in BOOLEAN : OnOptionsChange(key, value)

SpecTheme == Init /\ [][NextTheme]_vars

\* The manager's own operations only (no write through the public `colors`
\* field), every setTheme running to its end.
OwnThemes ==
  {EmptyTheme, Mixed, Uniform("#12345610"), Uniform("#FFFFFF"),
   ExtTheme(1, "#FFFFFF"), ExtTheme(MaxExtLen, "#12345610")}

CompletedSetTheme(t) == SetTheme(t) /\ ~last'.raised

NextOwn ==
  \/ \E t \in OwnThemes : CompletedSetTheme(t)
  \/ \E slot \in RestoreSlots : RestoreColor(slot)
  \/ \E key \in OptionKeys, value \in BOOLEAN : OnOptionsChange(key, value)

SpecOwn == Init /\ [][NextOwn]_vars

(***************************************************************************)
(* What the host makes of a theme string.                                  *)
(***************************************************************************)
Rejected(str) == str # UNDEF /\ FillStyle(str) = GRADIENT

ValidOpaque(str) == str # UNDEF /\ FillStyle(str) # GRADIENT /\ ImageData(str)[4] = 255

ValidNonOpaque(str) == str # UNDEF /\ FillStyle(str) # GRADIENT /\ ImageData(str)[4] # 255

\* the palette slots of the color set
PaletteSlots == 0..255

(***************************************************************************)
(* C1.  Cache coherence: immediately after an operation that changed a     *)
(* color of the color set has completed (setTheme, or restoreColor         *)
(* replacing a live value that differs from the snapshot), the contrast    *)
(* cache is empty.                                                         *)
(***************************************************************************)
C1_CacheEmptyAfterColorChange ==
  (last.op \in {"setTheme", "restoreColor"} /\ last.changed /\ ~last.raised)
    => contrastCache = {}

(***************************************************************************)
(* C2.  restoreColor() with no slot leaves every ANSI slot equal to the    *)
(* value the slot held when the most recent setTheme completed, whatever   *)
(* single-slot restores, option changes and direct writes came between.    *)
(***************************************************************************)
C2_RestoreAllToLastTheme ==
  (last.op = "restoreColor" /\ last.slot = NoSlot)
    => \A i \in PaletteSlots : At(colors.ansi, i) = At(applied.ansi, i)

\* a restoreColor() that replaced a directly written slot by the value of a
\* theme other than the defaults
C2_Witness ==
  /\ last.op = "restoreColor" /\ last.slot = NoSlot /\ last.changed
  /\ applied.ansi # DEFAULT_ANSI_COLORS
  /\ At(colors.ansi, 16) = At(applied.ansi, 16)
  /\ At(colors.ansi, 16) # WrittenColor

(***************************************************************************)
(* C3.  Snapshot consistency: in every state the restore snapshot equals   *)
(* foreground, background, cursor and ansi as they were when the most      *)
(* recent setTheme completed (the defaults before the first); only         *)
(* setTheme writes the snapshot after construction.                        *)
(***************************************************************************)
C3_SnapshotIsLastTheme ==
  /\ [](/\ restoreColors.foreground = applied.foreground
        /\ restoreColors.background = applied.background
        /\ restoreColors.cursor = applied.cursor
        /\ restoreColors.ansi = applied.ansi)
  /\ [][restoreColors' # restoreColors => (last'.op = "setTheme" /\ ~last'.raised)]_vars

\* the snapshot of a theme other than the defaults, while the live colors
\* have moved away from it through a direct write
C3_Witness ==
  /\ last.op = "write"
  /\ restoreColors.foreground # DEFAULT_FOREGROUND
  /\ restoreColors.ansi # DEFAULT_ANSI_COLORS
  /\ colors.ansi # restoreColors.ansi
  /\ restoreColors.ansi = applied.ansi

(***************************************************************************)
(* C4.  setTheme with an empty theme, in any reachable state, leaves every *)
(* color equal to its built-in default, the 256 ANSI slots included.       *)
(***************************************************************************)
C4_EmptyThemeGivesDefaults ==
  (last.op = "setTheme" /\ theme = EmptyTheme) => colors = InitialColors

(***************************************************************************)
(* C5.  setTheme is total: for every theme it completes without raising,   *)
(* and a rejected string prevents neither the cache clear nor the          *)
(* snapshot refresh.                                                       *)
(***************************************************************************)
C5_SetThemeTotal ==
  last.op = "setTheme"
    => /\ ~last.raised
       /\ contrastCache = {}
       /\ restoreColors = Structural(colors)
       /\ \A i \in PaletteSlots : At(colors.ansi, i) # Undefined

(***************************************************************************)
(* C6.  In every reachable state the live ansi sequence has exactly 256    *)
(* entries and every entry is a defined color.                             *)
(***************************************************************************)
C6_AnsiHas256Entries ==
  /\ Len(colors.ansi) = 256
  /\ \A k \in 1..Len(colors.ansi) : colors.ansi[k] # Undefined

SelectionAlpha == 77

C8_SelectionNeverOpaque ==
  LET sel == theme.str["selection"]
      st == colors.selectionTransparent
  IN /\ st.rgba[4] # 255
     /\ ValidOpaque(sel)
          => st.rgba = <<ImageData(sel)[1], ImageData(sel)[2], ImageData(sel)[3],
                         SelectionAlpha>>
     /\ ValidNonOpaque(sel)
          => /\ st.css = sel
             /\ st.rgba = <<FillStyleComponents(FillStyle(sel))[1],
                            FillStyleComponents(FillStyle(sel))[2],
                            FillStyleComponents(FillStyle(sel))[3],
                            RoundAlpha(FillStyleComponents(FillStyle(sel))[4])>>
     /\ (sel = UNDEF \/ Rejected(sel)) => st = DEFAULT_SELECTION

\* a setTheme whose selection string is fully opaque
C8_Witness ==
  /\ last.op = "setTheme"
  /\ ValidOpaque(theme.str["selection"])
  /\ colors.selectionTransparent.rgba[4] = SelectionAlpha
  /\ colors.selectionTransparent # DEFAULT_SELECTION

(***************************************************************************)
(* C9.  restoreColor changes only what its argument addresses:             *)
(* FOREGROUND only foreground, BACKGROUND only background, CURSOR only     *)
(* cursor, a palette index i only ansi[i], no slot only the ansi entries;  *)
(* the other fields, the snapshot and the allowTransparency flag stay.     *)
(***************************************************************************)
C9_RestoreFrame ==
  [][last'.op = "restoreColor"
       => /\ restoreColors' = restoreColors
          /\ allowTransparency' = allowTransparency
          /\ IF last'.slot = NoSlot
               THEN colors' = [colors EXCEPT !.ansi = colors'.ansi]
             ELSE IF last'.slot = FOREGROUND
               THEN colors' = [colors EXCEPT !.foreground = colors'.foreground]
             ELSE IF last'.slot = BACKGROUND
               THEN colors' = [colors EXCEPT !.background = colors'.background]
             ELSE IF last'.slot = CURSOR
               THEN colors' = [colors EXCEPT !.cursor = colors'.cursor]
             ELSE /\ colors' = [colors EXCEPT !.ansi = colors'.ansi]
                  /\ Len(colors'.ansi) = Len(colors.ansi)
                  /\ \A i \in 0..(Len(colors.ansi) - 1) :
                       i # last'.slot => At(colors'.ansi, i) = At(colors.ansi, i)]_vars

\* restoreColor(FOREGROUND) has replaced a written foreground while a
\* written palette slot still differs from the snapshot
C9_Witness ==
  /\ last.op = "restoreColor" /\ last.slot = FOREGROUND /\ last.changed
  /\ colors.foreground = restoreColors.foreground
  /\ At(colors.ansi, 16) = WrittenColor
  /\ At(restoreColors.ansi, 16) # WrittenColor

(***************************************************************************)
(* C10.  Transparency policy of setTheme: with allowTransparency false a   *)
(* valid non-opaque string for foreground, background or an ANSI slot      *)
(* resolves to the built-in default of that role; a valid non-opaque       *)
(* string for cursor, cursorAccent or selection is accepted whatever the   *)
(* flag.                                                                   *)
(***************************************************************************)
Accepted(c, str) ==
  /\ c.css = str
  /\ c.rgba[4] = RoundAlpha(FillStyleComponents(FillStyle(str))[4])
  /\ c.rgba[4] # 255

C10_TransparencyPolicy ==
  last.op = "setTheme"
    => /\ ~allowTransparency
            => /\ ValidNonOpaque(theme.str["foreground"])
                    => colors.foreground = DEFAULT_FOREGROUND
               /\ ValidNonOpaque(theme.str["background"])
                    => colors.background = DEFAULT_BACKGROUND
               /\ \A i \in 0..15 :
                    ValidNonOpaque(theme.str[AnsiNames[i + 1]])
                      => At(colors.ansi, i) = At(DEFAULT_ANSI_COLORS, i)
               /\ theme.extendedAnsi # NoExt
                    => \A i \in 16..255 :
                         ValidNonOpaque(ExtString(theme.extendedAnsi, i))
                           => At(colors.ansi, i) = At(DEFAULT_ANSI_COLORS, i)
       /\ ValidNonOpaque(theme.str["cursor"])
            => Accepted(colors.cursor, theme.str["cursor"])
       /\ ValidNonOpaque(theme.str["cursorAccent"])
            => Accepted(colors.cursorAccent, theme.str["cursorAccent"])
       /\ ValidNonOpaque(theme.str["selection"])
            => Accepted(colors.selectionTransparent, theme.str["selection"])

\* a theme whose strings are all valid and non-opaque, applied with the flag
\* off: the cursor is transparent, the foreground is the default
C10_Witness ==
  /\ last.op = "setTheme" /\ ~allowTransparency
  /\ ValidNonOpaque(theme.str["foreground"])
  /\ ValidNonOpaque(theme.str["cursor"])
  /\ ValidNonOpaque(theme.str["black"])
  /\ colors.cursor.rgba[4] # 255
  /\ colors.foreground = DEFAULT_FOREGROUND

(***************************************************************************)
(* C11.  After onOptionsChange('minimumContrastRatio', x), for any x and   *)
(* any prior state, the contrast cache is empty: a lookup of a pair cached *)
(* before the call misses.                                                 *)
(***************************************************************************)
C11_RatioChangeEmptiesCache ==
  (last.op = "onOptionsChange" /\ last.key = "minimumContrastRatio")
    => \A k \in CacheKeys : k \notin contrastCache

\* the call found a cached entry and removed it
C11_Witness ==
  /\ last.op = "onOptionsChange" /\ last.key = "minimumContrastRatio"
  /\ last.emptied
  /\ contrastCache = {}

(***************************************************************************)
(* C12.  onOptionsChange with a key other than 'minimumContrastRatio' and  *)
(* 'allowTransparency' changes nothing (color set, snapshot, cache,        *)
(* flag); with any key it changes neither a color nor the snapshot.        *)
(***************************************************************************)
C12_OptionsChangeFrame ==
  [][last'.op = "onOptionsChange"
       => /\ colors' = colors
          /\ restoreColors' = restoreColors
          /\ last'.key \notin {"minimumContrastRatio", "allowTransparency"}
               => /\ contrastCache' = contrastCache
                  /\ allowTransparency' = allowTransparency]_vars

\* an ignored key, delivered while the cache holds an entry and the live
\* colors differ from the defaults and from the snapshot
C12_Witness ==
  /\ last.op = "onOptionsChange" /\ last.key = "fontSize"
  /\ contrastCache # {}
  /\ colors.foreground # DEFAULT_FOREGROUND
  /\ colors.ansi # restoreColors.ansi

(***************************************************************************)
(* C13.  The allowTransparency value under which setTheme resolves the     *)
(* foreground, background, selectionForeground and ANSI strings is the one *)
(* the most recent onOptionsChange('allowTransparency', v) delivered (the  *)
(* constructor argument before the first); the flag change itself leaves   *)
(* the colors resolved earlier as they are.                                *)
(***************************************************************************)
ResolvedUnder(flag, c, str, fallback) ==
  ValidNonOpaque(str) => IF flag THEN Accepted(c, str) ELSE c = fallback

C13_FlagOfLastOptionsChange ==
  /\ []((last.op = "onOptionsChange" /\ last.key = "allowTransparency")
          => allowTransparency = last.value)
  /\ [][allowTransparency' # allowTransparency
          => (last'.op = "onOptionsChange" /\ last'.key = "allowTransparency")]_vars
  /\ [][last'.op = "onOptionsChange" => colors' = colors]_vars
  /\ [](last.op = "setTheme"
          => /\ ResolvedUnder(allowTransparency, colors.foreground,
                              theme.str["foreground"], DEFAULT_FOREGROUND)
             /\ ResolvedUnder(allowTransparency, colors.background,
                              theme.str["background"], DEFAULT_BACKGROUND)
             /\ ResolvedUnder(allowTransparency, colors.selectionForeground,
                              theme.str["selectionForeground"], Undefined)
             /\ \A i \in 0..15 :
                  ResolvedUnder(allowTransparency, At(colors.ansi, i),
                                theme.str[AnsiNames[i + 1]], At(DEFAULT_ANSI_COLORS, i))
             /\ theme.extendedAnsi # NoExt
                  => \A i \in 16..255 :
                       ResolvedUnder(allowTransparency, At(colors.ansi, i),
                                     ExtString(theme.extendedAnsi, i),
                                     At(DEFAULT_ANSI_COLORS, i)))

\* the flag has just been switched off while the foreground accepted under
\* the earlier value is still transparent
C13_Witness ==
  /\ last.op = "onOptionsChange" /\ last.key = "allowTransparency"
  /\ ~allowTransparency
  /\ ValidNonOpaque(theme.str["foreground"])
  /\ Accepted(colors.foreground, theme.str["foreground"])
  /\ Accepted(At(colors.ansi, 0), theme.str["black"])

(***************************************************************************)
(* C14.  Idempotence of setTheme: a setTheme(T) that directly follows a    *)
(* setTheme(T), the allowTransparency flag being the same, leaves the      *)
(* color set and the snapshot as the first one left them.                  *)
(***************************************************************************)
C14_SetThemeIdempotent ==
  [][(last.op = "setTheme" /\ last'.op = "setTheme" /\ theme' = theme)
       => (colors' = colors /\ restoreColors' = restoreColors)]_vars

\* a second setTheme of a theme that had changed the colors found nothing
\* left to change
C14_Witness ==
  /\ last.op = "setTheme" /\ ~last.changed
  /\ theme = Mixed
  /\ colors.background # DEFAULT_BACKGROUND
  /\ restoreColors = Structural(colors)

(***************************************************************************)
(* C15.  When the theme has an extendedAnsi list of any length, after      *)
(* setTheme every slot 16 + k with k < len(extendedAnsi) holds the parsed  *)
(* color of extendedAnsi[k], or the default palette entry at 16 + k if the *)
(* string is rejected, and every remaining slot up to 255 holds the        *)
(* default palette entry at its index.                                     *)
(***************************************************************************)
Resolves(str, flag) == ValidOpaque(str) \/ (ValidNonOpaque(str) /\ flag)

C15_ExtendedSlotsResolved ==
  (last.op = "setTheme" /\ theme.extendedAnsi # NoExt)
    => \A i \in 16..(ColorCount(theme.extendedAnsi) - 1) :
         /\ At(colors.ansi, i) # Undefined
         /\ IF Resolves(ExtString(theme.extendedAnsi, i), allowTransparency)
              THEN At(colors.ansi, i)
                     = parseColor(ExtString(theme.extendedAnsi, i), Undefined,
                                  allowTransparency)
              ELSE At(colors.ansi, i) = At(DEFAULT_ANSI_COLORS, i)

(***************************************************************************)
(* C16.  After setTheme, selectionForeground is absent exactly when the    *)
(* theme supplies no selectionForeground or the supplied string fails to   *)
(* resolve (unparseable, or non-opaque while allowTransparency is false);  *)
(* otherwise it is the parsed color of the string.  A value of an earlier  *)
(* theme does not survive a theme that supplies none.                      *)
(***************************************************************************)
C16_SelectionForeground ==
  last.op = "setTheme"
    => LET str == theme.str["selectionForeground"]
           sf == colors.selectionForeground
       IN /\ (sf = Undefined) <=> ~Resolves(str, allowTransparency)
          /\ ValidOpaque(str)
               => sf = [css |-> FillStyle(str), rgba |-> ImageData(str)]
          /\ (ValidNonOpaque(str) /\ allowTransparency) => Accepted(sf, str)

\* a theme without selectionForeground (or with an empty one) applied right
\* after a theme that had set the field
C16_Witness ==
  /\ last.op = "setTheme" /\ last.changed
  /\ ~Truthy(theme.str["selectionForeground"])
  /\ colors.selectionForeground = Undefined
  /\ colors.foreground = DEFAULT_FOREGROUND
  /\ colors.ansi = DEFAULT_ANSI_COLORS
  /\ colors.cursor = DEFAULT_CURSOR
  /\ colors.background = DEFAULT_BACKGROUND
  /\ colors.cursorAccent = DEFAULT_CURSOR_ACCENT
  /\ colors.selectionTransparent = DEFAULT_SELECTION

(***************************************************************************)
(* C17.  The default palette has exactly 256 entries in a fixed order:     *)
(* 0-15 the sixteen literal colors; 16 + i, for i in 0..215, the opaque    *)
(* color with red = step[(i div 36) mod 6], green = step[(i div 6) mod 6], *)
(* blue = step[i mod 6], step = [0x00, 0x5f, 0x87, 0xaf, 0xd7, 0xff];      *)
(* 232 + j, for j in 0..23, the opaque grey 8 + 10 j.  No operation        *)
(* changes an entry: whatever the live ansi array held, a completed        *)
(* setTheme with an extendedAnsi list puts these entries into the slots    *)
(* the list does not cover.                                                *)
(***************************************************************************)
Step == <<0, 95, 135, 175, 215, 255>>

PaletteRgba(n) ==
  IF n >= 232 THEN <<8 + 10 * (n - 232), 8 + 10 * (n - 232), 8 + 10 * (n - 232), 255>>
  ELSE <<Step[(((n - 16) \div 36) % 6) + 1],
         Step[(((n - 16) \div 6) % 6) + 1],
         Step[((n - 16) % 6) + 1],
         255>>

C17_DefaultPalette ==
  /\ Len(DEFAULT_ANSI_COLORS) = 256
  /\ \A n \in 0..15 : At(DEFAULT_ANSI_COLORS, n) = BaseAnsi[n + 1]
  /\ \A n \in 16..255 : At(DEFAULT_ANSI_COLORS, n).rgba = PaletteRgba(n)
  /\ At(DEFAULT_ANSI_COLORS, 0) = [css |-> "#2e3436", rgba |-> <<46, 52, 54, 255>>]
  /\ At(DEFAULT_ANSI_COLORS, 15) = [css |-> "#eeeeec", rgba |-> <<238, 238, 236, 255>>]
  /\ At(DEFAULT_ANSI_COLORS, 16) = [css |-> "#000000", rgba |-> <<0, 0, 0, 255>>]
  /\ At(DEFAULT_ANSI_COLORS, 21) = [css |-> "#0000ff", rgba |-> <<0, 0, 255, 255>>]
  /\ At(DEFAULT_ANSI_COLORS, 46) = [css |-> "#00ff00", rgba |-> <<0, 255, 0, 255>>]
  /\ At(DEFAULT_ANSI_COLORS, 196) = [css |-> "#ff0000", rgba |-> <<255, 0, 0, 255>>]
  /\ At(DEFAULT_ANSI_COLORS, 231) = [css |-> "#ffffff", rgba |-> <<255, 255, 255, 255>>]
  /\ At(DEFAULT_ANSI_COLORS, 232) = [css |-> "#080808", rgba |-> <<8, 8, 8, 255>>]
  /\ At(DEFAULT_ANSI_COLORS, 255) = [css |-> "#eeeeee", rgba |-> <<238, 238, 238, 255>>]
  /\ (last.op = "setTheme" /\ ~last.raised /\ theme.extendedAnsi # NoExt)
       => \A n \in (16 + Len(theme.extendedAnsi))..255 :
            At(colors.ansi, n).rgba = PaletteRgba(n)

\* an empty extendedAnsi list has put the palette back into slots that
\* held other colors
C17_Witness ==
  /\ last.op = "setTheme" /\ ~last.raised /\ last.changed
  /\ theme.extendedAnsi = <<>>
  /\ At(colors.ansi, 16).rgba = <<0, 0, 0, 255>>
  /\ At(colors.ansi, 255).rgba = <<238, 238, 238, 255>>

C19_LiveEqualsSnapshot ==
  /\ colors.foreground = restoreColors.foreground
  /\ colors.background = restoreColors.background
  /\ colors.cursor = restoreColors.cursor
  /\ Len(colors.ansi) = Len(restoreColors.ansi)
  /\ \A i \in 0..(Len(colors.ansi) - 1) : At(colors.ansi, i) = At(restoreColors.ansi, i)
  /\ last.op = "restoreColor" => ~last.changed

\* a restoreColor() after a theme that moved the colors away from the
\* defaults
C19_Witness ==
  /\ last.op = "restoreColor" /\ last.slot = NoSlot
  /\ colors.foreground # DEFAULT_FOREGROUND
  /\ At(colors.ansi, 0) # At(DEFAULT_ANSI_COLORS, 0)
  /\ At(colors.ansi, 16) # At(DEFAULT_ANSI_COLORS, 16)
  /\ colors.ansi = restoreColors.ansi

====
